---- MODULE Spec2Model ----
(***************************************************************************)
(* Model of server/main.py: the FastAPI notes backend.                     *)
(*                                                                         *)
(* The route handlers list_notes, create_note, delete_note and             *)
(* summarize_note are plain `def` functions, which FastAPI runs on a pool  *)
(* of worker threads.  Each action below is one run of a worker thread up  *)
(* to the next point where the interpreter may switch threads, and holds   *)
(* at most one access to the module global NOTES or to the list object it  *)
(* is bound to.  NOTES is a reference into `heap`: delete_note rebinds the *)
(* global to a freshly built list, while a thread that loaded the old list *)
(* keeps iterating the old object.  A statement that makes one call on the *)
(* list, such as NOTES.append(note) or len(NOTES), is one step; the        *)
(* comprehension of delete_note is a loop, and takes one step per note.    *)
(* int(time.time() * 1000) is read as a count of milliseconds that never   *)
(* runs backwards.                                                         *)
(***************************************************************************)
EXTENDS Integers, Sequences, FiniteSets, TLC

\* ---- bounds of the model ------------------------------------------------
\* requests the server accepts in one run
MaxRequests == 3
\* the values int(time.time() * 1000) takes during the run
ClockStart == 9
MaxClock == 10

\* the worker threads of the pool that are busy at the same time
Threads == {"w1", "w2"}
ClockValues == ClockStart..MaxClock

\* ---- values ---------------------------------------------------------------
\* A Python str that the handlers only copy is a TLA+ string; an id, whose
\* characters matter, is the sequence of its characters.
Digits == <<"0", "1", "2", "3", "4", "5", "6", "7", "8", "9">>
DigitSet == {Digits[i] : i \in 1..Len(Digits)}

RECURSIVE IntToStr(_)
\* str(n) for an int n >= 0: its decimal digits, most significant first
IntToStr(n) ==
    IF n < 10 THEN <<Digits[n + 1]>>
    ELSE Append(IntToStr(n \div 10), Digits[(n % 10) + 1])

\* Note(id=..., text=...)
Note(id, text) == [id |-> id, text |-> text]

\* Optional values: None is the empty sequence, a value v is <<v>>
None == << >>
Some(v) == <<v>>

EmptyStr == << >>
Ids == {IntToStr(c) : c \in ClockValues}
Texts == {"", "hello"}
UserQueries == {"", "q"}
NotesIds == Ids \cup {EmptyStr}
ModelNames == {"openai", "gemini", "xyz"}

\* what a provider call can hand back: a summary, an empty string, or None
NoneResult == "<None>"
LLMResults == {"a summary", "", NoneResult}
Falsy(v) == v \in {"", NoneResult}

NoSummary == "No summary generated"

ErrRequired == "userQuery and notesId are required"
ErrNotFound == "Note not found"
ErrModel == "Invalid modelName. Use 'openai' or 'gemini'."
ErrFailed == "Failed to summarize note"

\* ---- state ----------------------------------------------------------------
VARIABLES
    heap,      \* the list objects ever bound to NOTES, by reference
    NOTES,     \* the module global: a reference into heap
    pc,        \* per worker thread: the statement it is about to run
    req,       \* per worker thread: the request it is serving
    loc,       \* per worker thread: the handler's local variables
    resp,      \* per worker thread: the response of its last request
    clock,     \* last value read from int(time.time() * 1000)
    nreq,      \* number of requests accepted so far
    created,   \* history: every note appended to a list, in append order
    delTargets, \* history: the ids that DELETE requests have named
    called,    \* history, per worker thread: the provider functions called
               \* for the request it is serving
    kaPc       \* the keepalive task: the statement it is about to run

vars == <<heap, NOTES, pc, req, loc, resp, clock, nreq, created, delTargets,
          called, kaPc>>

\* the contents of the store: the list NOTES is bound to
Store == heap[NOTES]

NoReq == [n |-> 0, op |-> "none", text |-> "", note_id |-> EmptyStr,
          userQuery |-> "", notesId |-> EmptyStr, modelName |-> ""]
NoLoc == [before_count |-> 0, src |-> 0, idx |-> 0, acc |-> << >>,
          note |-> None, llm_res |-> "", newNote |-> None]
\* seen is history: the number of changes the store had gone through when
\* list_notes answered
NoResp == [status |-> 0, error |-> "", summary |-> "", note |-> None,
           notes |-> << >>, seen |-> 0]

\* the changes of the store so far: the rebindings of NOTES and the appends
Mutations == (NOTES - 1) + Len(created)

\* storage.NOTES as imported at start-up: an empty list
StorageNOTES == << >>

Init ==
    /\ heap = <<StorageNOTES>>
    /\ NOTES = 1
    /\ pc = [t \in Threads |-> "idle"]
    /\ req = [t \in Threads |-> NoReq]
    /\ loc = [t \in Threads |-> NoLoc]
    /\ resp = [t \in Threads |-> NoResp]
    /\ clock = ClockStart
    /\ nreq = 0
    /\ created = << >>
    /\ delTargets = {}
    /\ called = [t \in Threads |-> << >>]
    /\ kaPc = "get"

\* a worker thread is free to take the next request
Free(t) == pc[t] \in {"idle", "done"} /\ nreq < MaxRequests

\* the thread takes request r and runs to statement p with locals l
Accept(t, r, p, l) ==
    /\ Free(t)
    /\ nreq' = nreq + 1
    /\ req' = [req EXCEPT ![t] = [r EXCEPT !.n = nreq + 1]]
    /\ pc' = [pc EXCEPT ![t] = p]
    /\ loc' = [loc EXCEPT ![t] = l]
    /\ resp' = [resp EXCEPT ![t] = NoResp]
    /\ called' = [called EXCEPT ![t] = << >>]

\* the handler of thread t returns (or raises) with response r
Return(t, r) ==
    /\ pc' = [pc EXCEPT ![t] = "done"]
    /\ resp' = [resp EXCEPT ![t] = r]
    /\ loc' = [loc EXCEPT ![t] = NoLoc]

\* list.append(n) on the list object o
ListAppend(o, n) ==
    /\ heap' = [heap EXCEPT ![o] = Append(@, n)]
    /\ created' = Append(created, n)

\* ---- GET /api/notes -------------------------------------------------------
\* lines 52-56 turning the list around in place before returning it
list_notes_reverse(t) ==
    /\ Free(t)
    /\ nreq' = nreq + 1
    /\ req' = [req EXCEPT ![t] = [NoReq EXCEPT !.n = nreq + 1, !.op = "list"]]
    /\ heap' = [heap EXCEPT ![NOTES] =
                   [i \in 1..Len(@) |-> @[Len(@) + 1 - i]]]
    /\ Return(t, [NoResp EXCEPT !.status = 200, !.notes = heap'[NOTES],
                                !.seen = Mutations])
    /\ called' = [called EXCEPT ![t] = << >>]
    /\ UNCHANGED <<NOTES, clock, created, delTargets, kaPc>>

\* lines 52-56: return NOTES
list_notes(t) ==
    /\ Free(t)
    /\ nreq' = nreq + 1
    /\ req' = [req EXCEPT ![t] = [NoReq EXCEPT !.n = nreq + 1, !.op = "list"]]
    /\ Return(t, [NoResp EXCEPT !.status = 200, !.notes = Store,
                                !.seen = Mutations])
    /\ called' = [called EXCEPT ![t] = << >>]
    /\ UNCHANGED <<heap, NOTES, clock, created, delTargets, kaPc>>

\* ---- POST /api/notes ------------------------------------------------------
\* line 64: note = Note(id=str(int(time.time() * 1000)), text=payload.text)
create_note_build(t) ==
    \E text \in Texts, now \in ClockValues :
        /\ now >= clock
        /\ clock' = now
        /\ Accept(t, [NoReq EXCEPT !.op = "create", !.text = text],
                  "create_append",
                  [NoLoc EXCEPT !.newNote = Some(Note(IntToStr(now), text))])
        /\ UNCHANGED <<heap, NOTES, created, delTargets, kaPc>>

\* lines 65-66 with the note put at the front of the list
create_note_prepend(t) ==
    /\ pc[t] = "create_append"
    /\ heap' = [heap EXCEPT ![NOTES] = <<loc[t].newNote[1]>> \o @]
    /\ created' = Append(created, loc[t].newNote[1])
    /\ Return(t, [NoResp EXCEPT !.status = 201, !.note = loc[t].newNote])
    /\ UNCHANGED <<NOTES, req, clock, nreq, delTargets, called, kaPc>>

\* lines 65-66: NOTES.append(note); return note
create_note_append(t) ==
    /\ pc[t] = "create_append"
    /\ ListAppend(NOTES, loc[t].newNote[1])
    /\ Return(t, [NoResp EXCEPT !.status = 201, !.note = loc[t].newNote])
    /\ UNCHANGED <<NOTES, req, clock, nreq, delTargets, called, kaPc>>

\* ---- DELETE /api/notes/{note_id} ------------------------------------------
\* line 75: before_count = len(NOTES)
delete_note_count(t) ==
    \E id \in Ids :
        /\ Accept(t, [NoReq EXCEPT !.op = "delete", !.note_id = id],
                  "delete_load",
                  [NoLoc EXCEPT !.before_count = Len(Store)])
        /\ delTargets' = delTargets \cup {id}
        /\ UNCHANGED <<heap, NOTES, clock, created, kaPc>>

\* line 76, `for n in NOTES`: load the global and start iterating that list
delete_note_load(t) ==
    /\ pc[t] = "delete_load"
    /\ pc' = [pc EXCEPT ![t] = "delete_iter"]
    /\ loc' = [loc EXCEPT ![t].src = NOTES, ![t].idx = 1, ![t].acc = << >>]
    /\ UNCHANGED <<heap, NOTES, req, resp, clock, nreq, created,
                 delTargets, called, kaPc>>

\* line 76 building the new list back to front
delete_note_iter_reversed(t) ==
    /\ pc[t] = "delete_iter"
    /\ LET l == loc[t]
           list == heap[l.src]
       IN IF l.idx <= Len(list)
          THEN /\ loc' = [loc EXCEPT
                      ![t].idx = l.idx + 1,
                      ![t].acc = IF list[l.idx].id # req[t].note_id
                                 THEN <<list[l.idx]>> \o l.acc
                                 ELSE l.acc]
               /\ pc' = pc
          ELSE /\ pc' = [pc EXCEPT ![t] = "delete_store"]
               /\ loc' = loc
    /\ UNCHANGED <<heap, NOTES, req, resp, clock, nreq, created,
                 delTargets, called, kaPc>>

\* line 76, one turn of the comprehension: keep n if n.id != note_id; the
\* iterator ends when its index has passed the end of the list it walks
delete_note_iter(t) ==
    /\ pc[t] = "delete_iter"
    /\ LET l == loc[t]
           list == heap[l.src]
       IN IF l.idx <= Len(list)
          THEN /\ loc' = [loc EXCEPT
                      ![t].idx = l.idx + 1,
                      ![t].acc = IF list[l.idx].id # req[t].note_id
                                 THEN Append(l.acc, list[l.idx])
                                 ELSE l.acc]
               /\ pc' = pc
          ELSE /\ pc' = [pc EXCEPT ![t] = "delete_store"]
               /\ loc' = loc
    /\ UNCHANGED <<heap, NOTES, req, resp, clock, nreq, created,
                 delTargets, called, kaPc>>

\* line 76, `NOTES = [...]`: bind the global to the new list
delete_note_store(t) ==
    /\ pc[t] = "delete_store"
    /\ heap' = Append(heap, loc[t].acc)
    /\ NOTES' = Len(heap) + 1
    /\ pc' = [pc EXCEPT ![t] = "delete_check"]
    /\ UNCHANGED <<req, loc, resp, clock, nreq, created, delTargets, called,
                 kaPc>>

\* lines 77-81: 404 if len(NOTES) == before_count, else 204
delete_note_check(t) ==
    /\ pc[t] = "delete_check"
    /\ IF Len(Store) = loc[t].before_count
       THEN Return(t, [NoResp EXCEPT !.status = 404, !.error = ErrNotFound])
       ELSE Return(t, [NoResp EXCEPT !.status = 204])
    /\ UNCHANGED <<heap, NOTES, req, clock, nreq, created, delTargets,
                 called, kaPc>>

\* ---- POST /api/notes/summary ----------------------------------------------
\* next((n for n in notes if n.id == notes_id), None): the first match
Find(notes, notes_id) ==
    LET hits == {i \in 1..Len(notes) : notes[i].id = notes_id}
    IN IF hits = {} THEN None
       ELSE Some(notes[CHOOSE i \in hits : \A j \in hits : i <= j])

\* lines 91-106 without the `if not note` return: a missing note goes on to
\* the dispatch
summarize_note_check_nolookup(t) ==
    \E userQuery \in UserQueries, notesId \in NotesIds, modelName \in ModelNames :
        LET r == [NoReq EXCEPT !.n = nreq + 1,
                               !.op = "summarize", !.userQuery = userQuery,
                               !.notesId = notesId, !.modelName = modelName]
            note == Find(Store, notesId)
        IN /\ Free(t)
           /\ nreq' = nreq + 1
           /\ req' = [req EXCEPT ![t] = r]
           /\ IF userQuery = "" \/ notesId = EmptyStr
              THEN Return(t, [NoResp EXCEPT !.status = 400, !.error = ErrRequired])
              ELSE /\ pc' = [pc EXCEPT ![t] = "summarize_dispatch"]
                   /\ loc' = [loc EXCEPT ![t] = [NoLoc EXCEPT !.note = note]]
                   /\ resp' = [resp EXCEPT ![t] = NoResp]
           /\ called' = [called EXCEPT ![t] = << >>]
           /\ UNCHANGED <<heap, NOTES, clock, created, delTargets, kaPc>>

\* lines 91-106 with the lookup ahead of the required-field check
summarize_note_check_lookupfirst(t) ==
    \E userQuery \in UserQueries, notesId \in NotesIds, modelName \in ModelNames :
        LET r == [NoReq EXCEPT !.n = nreq + 1,
                               !.op = "summarize", !.userQuery = userQuery,
                               !.notesId = notesId, !.modelName = modelName]
            note == Find(Store, notesId)
        IN /\ Free(t)
           /\ nreq' = nreq + 1
           /\ req' = [req EXCEPT ![t] = r]
           /\ IF note = None
              THEN Return(t, [NoResp EXCEPT !.status = 404, !.error = ErrNotFound])
              ELSE IF userQuery = "" \/ notesId = EmptyStr
              THEN Return(t, [NoResp EXCEPT !.status = 400, !.error = ErrRequired])
              ELSE /\ pc' = [pc EXCEPT ![t] = "summarize_dispatch"]
                   /\ loc' = [loc EXCEPT ![t] = [NoLoc EXCEPT !.note = note]]
                   /\ resp' = [resp EXCEPT ![t] = NoResp]
           /\ called' = [called EXCEPT ![t] = << >>]
           /\ UNCHANGED <<heap, NOTES, clock, created, delTargets, kaPc>>

\* lines 91-106: the required-field check, then the lookup of the note
summarize_note_check(t) ==
    \E userQuery \in UserQueries, notesId \in NotesIds, modelName \in ModelNames :
        LET r == [NoReq EXCEPT !.n = nreq + 1,
                               !.op = "summarize", !.userQuery = userQuery,
                               !.notesId = notesId, !.modelName = modelName]
            note == Find(Store, notesId)
        IN /\ Free(t)
           /\ nreq' = nreq + 1
           /\ req' = [req EXCEPT ![t] = r]
           /\ IF userQuery = "" \/ notesId = EmptyStr
              THEN Return(t, [NoResp EXCEPT !.status = 400, !.error = ErrRequired])
              ELSE IF note = None
              THEN Return(t, [NoResp EXCEPT !.status = 404, !.error = ErrNotFound])
              ELSE /\ pc' = [pc EXCEPT ![t] = "summarize_dispatch"]
                   /\ loc' = [loc EXCEPT ![t] = [NoLoc EXCEPT !.note = note]]
                   /\ resp' = [resp EXCEPT ![t] = NoResp]
           /\ called' = [called EXCEPT ![t] = << >>]
           /\ UNCHANGED <<heap, NOTES, clock, created, delTargets, kaPc>>

\* lines 108-111: the function of llm_clients that modelName selects
Provider(modelName) ==
    IF modelName = "openai" THEN "summarize_with_openai"
    ELSE "summarize_with_gemini"

\* lines 108-116 with the two provider functions taken for each other
summarize_note_dispatch_swapped(t) ==
    /\ pc[t] = "summarize_dispatch"
    /\ IF req[t].modelName \in {"openai", "gemini"}
       THEN /\ called' = [called EXCEPT ![t] =
                   Append(@, IF req[t].modelName = "openai"
                             THEN Provider("gemini") ELSE Provider("openai"))]
            /\ \/ \E llm_res \in LLMResults :
                    /\ pc' = [pc EXCEPT ![t] = "summarize_build"]
                    /\ loc' = [loc EXCEPT ![t].llm_res = llm_res]
                    /\ resp' = resp
               \/ /\ pc' = [pc EXCEPT ![t] = "summarize_except"]
                  /\ UNCHANGED <<loc, resp>>
       ELSE /\ Return(t, [NoResp EXCEPT !.status = 400, !.error = ErrModel])
            /\ called' = called
    /\ UNCHANGED <<heap, NOTES, req, clock, nreq, created, delTargets, kaPc>>

\* lines 108-116: the call of the provider modelName selects, which returns
\* a result or raises into the handler's except clause; any other modelName
\* is a 400
summarize_note_dispatch(t) ==
    /\ pc[t] = "summarize_dispatch"
    /\ IF req[t].modelName \in {"openai", "gemini"}
       THEN /\ called' = [called EXCEPT ![t] = Append(@, Provider(req[t].modelName))]
            /\ \/ \E llm_res \in LLMResults :
                    /\ pc' = [pc EXCEPT ![t] = "summarize_build"]
                    /\ loc' = [loc EXCEPT ![t].llm_res = llm_res]
                    /\ resp' = resp
               \/ /\ pc' = [pc EXCEPT ![t] = "summarize_except"]
                  /\ UNCHANGED <<loc, resp>>
       ELSE /\ Return(t, [NoResp EXCEPT !.status = 400, !.error = ErrModel])
            /\ called' = called
    /\ UNCHANGED <<heap, NOTES, req, clock, nreq, created, delTargets, kaPc>>

\* the exception leaving the handler uncaught: the framework's own 500
summarize_note_uncaught(t) ==
    /\ pc[t] = "summarize_except"
    /\ Return(t, [NoResp EXCEPT !.status = 500, !.error = "Internal Server Error"])
    /\ UNCHANGED <<heap, NOTES, req, clock, nreq, created, delTargets,
                 called, kaPc>>

\* lines 123-128: except Exception: the 500 response
summarize_note_except(t) ==
    /\ pc[t] = "summarize_except"
    /\ Return(t, [NoResp EXCEPT !.status = 500, !.error = ErrFailed])
    /\ UNCHANGED <<heap, NOTES, req, clock, nreq, created, delTargets,
                 called, kaPc>>

\* the fallback taken for None alone: an empty string is passed on
SummaryOf_NoneOnly(llm_res) == IF llm_res = NoneResult THEN NoSummary ELSE llm_res

\* llm_res or "No summary generated"
SummaryOf(llm_res) == IF Falsy(llm_res) THEN NoSummary ELSE llm_res

\* lines 118-119: summary = llm_res or "No summary generated";
\* newNote = Note(id=str(int(time.time() * 1000)), text=summary)
summarize_note_build(t) ==
    /\ pc[t] = "summarize_build"
    /\ \E now \in ClockValues :
        /\ now >= clock
        /\ clock' = now
        /\ loc' = [loc EXCEPT
               ![t].newNote = Some(Note(IntToStr(now), SummaryOf(loc[t].llm_res)))]
    /\ pc' = [pc EXCEPT ![t] = "summarize_append"]
    /\ UNCHANGED <<heap, NOTES, req, resp, nreq, created, delTargets,
                 called, kaPc>>

\* lines 120-121 with NOTES.insert(0, newNote) for the append
summarize_note_insert_front(t) ==
    /\ pc[t] = "summarize_append"
    /\ heap' = [heap EXCEPT ![NOTES] = <<loc[t].newNote[1]>> \o @]
    /\ created' = Append(created, loc[t].newNote[1])
    /\ Return(t, [NoResp EXCEPT !.status = 200, !.summary = loc[t].newNote[1].text])
    /\ UNCHANGED <<NOTES, req, clock, nreq, delTargets, called, kaPc>>

\* lines 120-121 with the lookup of lines 101-106 repeated before the append
summarize_note_append_recheck(t) ==
    /\ pc[t] = "summarize_append"
    /\ IF Find(Store, req[t].notesId) = None
       THEN /\ Return(t, [NoResp EXCEPT !.status = 404, !.error = ErrNotFound])
            /\ UNCHANGED <<heap, created>>
       ELSE /\ ListAppend(NOTES, loc[t].newNote[1])
            /\ Return(t, [NoResp EXCEPT !.status = 200,
                                        !.summary = loc[t].newNote[1].text])
    /\ UNCHANGED <<NOTES, req, clock, nreq, delTargets, called, kaPc>>

\* lines 120-121: NOTES.append(newNote); return SummaryResponse(summary=summary)
summarize_note_append(t) ==
    /\ pc[t] = "summarize_append"
    /\ ListAppend(NOTES, loc[t].newNote[1])
    /\ Return(t, [NoResp EXCEPT !.status = 200, !.summary = loc[t].newNote[1].text])
    /\ UNCHANGED <<NOTES, req, clock, nreq, delTargets, called, kaPc>>

\* ---- the keepalive task ---------------------------------------------------
\* _keepalive_loop, created by start_keepalive_task before the first request
\* is served.  It shares no state with the handlers.
HandlerVars == <<heap, NOTES, pc, req, loc, resp, clock, nreq, created,
                 delTargets, called>>

\* lines 34-36 without the except clause: the error ends the task
keepalive_except_raise ==
    /\ kaPc = "except"
    /\ kaPc' = "stopped"
    /\ UNCHANGED HandlerVars

\* line 33: await client.get(KEEPALIVE_URL), which answers or raises (after
\* the client's timeout at the latest)
keepalive_get ==
    /\ kaPc = "get"
    /\ kaPc' \in {"sleep", "except"}
    /\ UNCHANGED HandlerVars

\* lines 34-36: except Exception: pass
keepalive_except ==
    /\ kaPc = "except"
    /\ kaPc' = "sleep"
    /\ UNCHANGED HandlerVars

\* line 37: await asyncio.sleep(PING_INTERVAL_SECONDS), then line 31 again
keepalive_sleep ==
    /\ kaPc = "sleep"
    /\ kaPc' = "get"
    /\ UNCHANGED HandlerVars

Keepalive == keepalive_get \/ keepalive_except \/ keepalive_sleep

\* the worker threads: one step of one request handler
Handlers ==
    \E t \in Threads :
        \/ list_notes(t)
        \/ create_note_build(t)
        \/ create_note_append(t)
        \/ delete_note_count(t)
        \/ delete_note_load(t)
        \/ delete_note_iter(t)
        \/ delete_note_store(t)
        \/ delete_note_check(t)
        \/ summarize_note_check(t)
        \/ summarize_note_dispatch(t)
        \/ summarize_note_except(t)
        \/ summarize_note_build(t)
        \/ summarize_note_append(t)

\* the server: the keepalive task beside the worker threads
Next ==
    \/ keepalive_get
    \/ keepalive_except
    \/ keepalive_sleep
    \/ Handlers

Spec == Init /\ [][Next]_vars

\* the event loop runs a task that is ready: the GET ends by an answer, an
\* error or the client's timeout, and the sleep ends after its interval
LiveSpec == Spec /\ WF_vars(Keepalive)

\* The request handlers alone.  No keepalive step reads or writes a variable
\* of the handlers and no handler step reads or writes kaPc, so the handlers
\* behave in Spec as they do here.
HandlerSpec == Init /\ [][Handlers]_vars

\* ---- properties -----------------------------------------------------------
ValidModels == {"openai", "gemini"}

\* some note of the list carries the id
HasId(notes, id) == \E i \in 1..Len(notes) : notes[i].id = id

\* the number of notes of the list that carry the id
RECURSIVE CountId(_, _)
CountId(notes, id) ==
    IF notes = << >> THEN 0
    ELSE (IF Head(notes).id = id THEN 1 ELSE 0) + CountId(Tail(notes), id)

\* s can be obtained from l by dropping elements
RECURSIVE IsSubseq(_, _)
IsSubseq(s, l) ==
    IF s = << >> THEN TRUE
    ELSE IF l = << >> THEN FALSE
    ELSE IF Head(s) = Head(l) THEN IsSubseq(Tail(s), Tail(l))
    ELSE IsSubseq(s, Tail(l))

\* a non-empty string of decimal digits
AllDigits(id) == Len(id) > 0 /\ \A i \in 1..Len(id) : id[i] \in DigitSet

Done(t, op) == pc[t] = "done" /\ req[t].op = op

\* thread t accepts a request for op in this step
Accepts(t, op) == nreq' = nreq + 1 /\ req'[t].n = nreq' /\ req'[t].op = op

\* thread t leaves statement p in this step
Leaves(t, p) == pc[t] = p /\ pc'[t] # p

StoreUnchanged == heap' = heap /\ NOTES' = NOTES

\* thread t's delete has walked the whole of the list that is the store now
DeleteSawStore(t) == loc[t].src = NOTES /\ loc[t].idx > Len(Store)

\* C1: a DELETE of an id that some stored note carries, rebinding the store
\* after filtering the list as it stands, leaves exactly one note fewer.
C1_DeleteRemovesExactlyOne ==
    [][\A t \in Threads :
          (Leaves(t, "delete_store") /\ DeleteSawStore(t)
              /\ HasId(Store, req[t].note_id))
          => Len(Store') = Len(Store) - 1]_vars

\* C2 as stated: a summary request whose modelName is neither "openai" nor
\* "gemini" is answered 400 whatever its other fields are.
C2_InvalidModelAlways400 ==
    \A t \in Threads :
        (Done(t, "summarize") /\ req[t].modelName \notin ValidModels)
        => resp[t].status = 400

\* C2 as amended: such a request never changes the store; it is answered 400
\* when userQuery or notesId is empty, 404 when both are given and notesId
\* matches no stored note, and 400 (invalid modelName) when the note exists.
C2_InvalidModelStatus ==
    [][\A t \in Threads :
          /\ (Accepts(t, "summarize") /\ req'[t].modelName \notin ValidModels)
             => /\ StoreUnchanged
                /\ IF req'[t].userQuery = "" \/ req'[t].notesId = EmptyStr
                   THEN pc'[t] = "done" /\ resp'[t].status = 400
                        /\ resp'[t].error = "userQuery and notesId are required"
                   ELSE IF ~HasId(Store, req'[t].notesId)
                   THEN pc'[t] = "done" /\ resp'[t].status = 404
                        /\ resp'[t].error = "Note not found"
                   ELSE pc'[t] = "summarize_dispatch"
          /\ (Leaves(t, "summarize_dispatch") /\ req[t].modelName \notin ValidModels)
             => /\ StoreUnchanged
                /\ pc'[t] = "done" /\ resp'[t].status = 400
                /\ resp'[t].error = "Invalid modelName. Use 'openai' or 'gemini'."
      ]_vars

\* an invalid modelName answered 404, and one answered 400 for the modelName
C2_Witness ==
    \E t, u \in Threads :
        /\ Done(t, "summarize") /\ req[t].modelName = "xyz"
        /\ resp[t].status = 404
        /\ Done(u, "summarize") /\ req[u].modelName = "xyz"
        /\ resp[u].status = 400 /\ resp[u].error = ErrModel

\* C3 as stated: a summary request whose notesId matches no stored note is
\* answered 404 whatever userQuery and modelName are, empty fields included.
C3_MissingNoteAlways404 ==
    [][\A t \in Threads :
          (Accepts(t, "summarize") /\ ~HasId(Store, req'[t].notesId))
          => pc'[t] = "done" /\ resp'[t].status = 404]_vars

\* C3 as amended: such a request is answered 404 for every modelName when
\* userQuery and notesId are both non-empty, 400 when one of them is empty,
\* and leaves the store unchanged.
C3_MissingNoteStatus ==
    [][\A t \in Threads :
          (Accepts(t, "summarize") /\ ~HasId(Store, req'[t].notesId))
          => /\ StoreUnchanged
             /\ pc'[t] = "done"
             /\ IF req'[t].userQuery = "" \/ req'[t].notesId = EmptyStr
                THEN resp'[t].status = 400
                     /\ resp'[t].error = "userQuery and notesId are required"
                ELSE resp'[t].status = 404
                     /\ resp'[t].error = "Note not found"]_vars

\* a 404 for a valid modelName while the store holds other notes
C3_Witness ==
    \E t \in Threads :
        /\ Done(t, "summarize") /\ resp[t].status = 404
        /\ req[t].modelName = "gemini" /\ req[t].userQuery # ""
        /\ Len(Store) > 0 /\ ~HasId(Store, req[t].notesId)

\* C4: a note whose create returned 201 and whose id no DELETE has named is
\* in the store.
C4_CreatedNotePresent ==
    \A t \in Threads :
        (Done(t, "create") /\ resp[t].status = 201
            /\ resp[t].note[1].id \notin delTargets)
        => \E i \in 1..Len(Store) : Store[i] = resp[t].note[1]

\* C5: a DELETE of an id that no note has ever carried is answered 404.
C5_DeleteMissingIs404 ==
    \A t \in Threads :
        (Done(t, "delete") /\ ~HasId(created, req[t].note_id))
        => resp[t].status = 404

\* C6: when the provider's result is falsy, the request appends one note
\* whose text is "No summary generated" as the last note of the store and is
\* answered 200 with that text as summary.
C6_FallbackSummary ==
    [][\A t \in Threads :
          (Leaves(t, "summarize_append") /\ Falsy(loc[t].llm_res)
              /\ req[t].userQuery # "" /\ req[t].modelName \in ValidModels)
          => /\ pc'[t] = "done" /\ resp'[t].status = 200
             /\ resp'[t].summary = "No summary generated"
             /\ NOTES' = NOTES
             /\ Len(Store') = Len(Store) + 1
             /\ SubSeq(Store', 1, Len(Store)) = Store
             /\ Store'[Len(Store')].text = "No summary generated"]_vars

\* a request answered with the fallback, its note the last of the store
C6_Witness ==
    \E t \in Threads :
        /\ Done(t, "summarize") /\ resp[t].status = 200
        /\ resp[t].summary = "No summary generated"
        /\ Len(Store) >= 2
        /\ Store[Len(Store)].text = "No summary generated"

\* C7: when the provider call raises, the request changes nothing in the
\* store and is answered 500 with the error "Failed to summarize note".
C7_ProviderErrorIs500 ==
    [][\A t \in Threads :
          /\ (pc'[t] = "summarize_except" /\ pc[t] # "summarize_except")
             => StoreUnchanged /\ pc[t] = "summarize_dispatch"
          /\ Leaves(t, "summarize_except")
             => /\ StoreUnchanged
                /\ pc'[t] = "done" /\ resp'[t].status = 500
                /\ resp'[t].error = "Failed to summarize note"
      ]_vars

\* a request answered 500 while its source note is in the store and no
\* summary note has been appended
C7_Witness ==
    \E t \in Threads :
        /\ Done(t, "summarize") /\ resp[t].status = 500
        /\ HasId(Store, req[t].notesId)
        /\ \A i \in 1..Len(created) : created[i].text \in Texts

C9_CreationOrder ==
    /\ IsSubseq(Store, created)
    /\ \A i \in 1..Len(Store) : AllDigits(Store[i].id)
    /\ \A t \in Threads :
          Done(t, "list")
          => /\ IsSubseq(resp[t].notes, created)
             /\ \A i \in 1..Len(resp[t].notes) : AllDigits(resp[t].notes[i].id)

\* two different notes in a store that a delete has rebuilt
C9_Witness ==
    /\ NOTES > 1
    /\ Len(Store) >= 2
    /\ Store[1] # Store[2]

\* C10: the number of stored notes that carry an id goes down only in the
\* step in which a DELETE request for that id rebinds the store.
C10_RemovedOnlyByDelete ==
    [][\A id \in Ids :
          CountId(Store', id) < CountId(Store, id)
          => \E t \in Threads :
                Leaves(t, "delete_store") /\ req[t].note_id = id]_vars

\* C11: a ping is issued again and again for ever; after a ping that raised,
\* as after one that was answered, the loop sleeps and then pings again; the
\* task never ends, and none of its steps shows in a variable of the
\* handlers.
C11_KeepaliveNeverStops ==
    /\ []<><<keepalive_get>>_vars
    /\ (kaPc = "except") ~> (kaPc = "sleep")
    /\ (kaPc = "sleep") ~> (kaPc = "get")
    /\ [](kaPc \in {"get", "except", "sleep"})
    /\ [][kaPc' # kaPc => UNCHANGED HandlerVars]_vars

\* a ping has raised while a request is being served
C11_Witness ==
    /\ kaPc = "except"
    /\ \E t \in Threads : pc[t] \notin {"idle", "done"}

\* C12: GET /api/notes leaves the store as it is and answers its contents;
\* its answer equals every earlier answer of list since which the store has
\* not changed.
C12_ListRepeatable ==
    [][\A t \in Threads :
          Accepts(t, "list")
          => /\ StoreUnchanged
             /\ pc'[t] = "done" /\ resp'[t].status = 200
             /\ resp'[t].notes = Store
             /\ \A u \in Threads :
                   (Done(u, "list") /\ resp[u].seen = Mutations)
                   => resp'[t].notes = resp[u].notes]_vars

\* two answers of list, one after the other, over a store that holds a note
C12_Witness ==
    \E t, u \in Threads :
        /\ t # u
        /\ Done(t, "list") /\ Done(u, "list")
        /\ req[u].n = req[t].n + 1
        /\ resp[t].seen = resp[u].seen
        /\ Len(resp[t].notes) >= 1
        /\ resp[t].notes = resp[u].notes

\* the notes of the list that do not carry the id, in their order
Without(notes, id) == SelectSeq(notes, LAMBDA n : n.id # id)

\* thread t's delete has dropped a note from the list it walked
DeleteDropped(t) == Len(loc[t].acc) < loc[t].idx - 1

\* C13: DELETE rebinds the store to the store without the notes that carry
\* the id, every other note kept in its place, and answers 204 exactly when
\* it removed a note, 404 otherwise.
C13_DeleteRemovesAllMatches ==
    [][\A t \in Threads :
          /\ Leaves(t, "delete_store")
             => Store' = Without(Store, req[t].note_id)
          /\ Leaves(t, "delete_check")
             => /\ resp'[t].status \in {204, 404}
                /\ resp'[t].status = 204 <=> DeleteDropped(t)]_vars

\* C14: the summary request is answered by the first check that fails, in
\* the order required fields (400), lookup (404), modelName (400); a
\* provider function is called at most once for a request, only after the
\* three checks have passed, and it is the one modelName names.
C14_CheckOrder ==
    [][\A t \in Threads :
          /\ Accepts(t, "summarize")
             => IF req'[t].userQuery = "" \/ req'[t].notesId = EmptyStr
                THEN /\ pc'[t] = "done" /\ resp'[t].status = 400
                     /\ resp'[t].error = "userQuery and notesId are required"
                ELSE IF ~HasId(Store, req'[t].notesId)
                THEN /\ pc'[t] = "done" /\ resp'[t].status = 404
                     /\ resp'[t].error = "Note not found"
                ELSE pc'[t] = "summarize_dispatch"
          /\ (Leaves(t, "summarize_dispatch")
                /\ req[t].modelName \notin {"openai", "gemini"})
             => /\ pc'[t] = "done" /\ resp'[t].status = 400
                /\ resp'[t].error = "Invalid modelName. Use 'openai' or 'gemini'."
          /\ req'[t].op = "summarize"
             => /\ Len(called'[t]) <= 1
                /\ called'[t] # << >>
                   => /\ pc'[t] \notin {"idle", "summarize_dispatch"}
                      /\ resp'[t].status \notin {400, 404}
                      /\ req'[t].userQuery # "" /\ req'[t].notesId # EmptyStr
                      /\ \/ req'[t].modelName = "openai"
                            /\ called'[t] = <<"summarize_with_openai">>
                         \/ req'[t].modelName = "gemini"
                            /\ called'[t] = <<"summarize_with_gemini">>
                /\ resp'[t].status \in {200, 500} => Len(called'[t]) = 1
      ]_vars

\* both providers have been called, each for a request that names it
C14_Witness ==
    \E t, u \in Threads :
        /\ req[t].op = "summarize" /\ req[t].modelName = "openai"
        /\ called[t] = <<"summarize_with_openai">>
        /\ req[u].op = "summarize" /\ req[u].modelName = "gemini"
        /\ called[u] = <<"summarize_with_gemini">>

\* thread t takes a step of summarize_note
SummarizeStep(t) ==
    \/ Accepts(t, "summarize")
    \/ \E p \in {"summarize_dispatch", "summarize_except", "summarize_build",
                 "summarize_append"} : Leaves(t, p)

\* C15: a step of a summary request that answers 200 appends one note to the
\* store, as its last element and with the answered summary as text, and
\* leaves every other note where it was; every other step of a summary
\* request, the ones that answer 400 or 404 included, leaves the store as
\* it is.
C15_SummaryOnlyAppends ==
    [][\A t \in Threads :
          SummarizeStep(t)
          => IF pc'[t] = "done" /\ resp'[t].status = 200
             THEN /\ NOTES' = NOTES
                  /\ Len(Store') = Len(Store) + 1
                  /\ \A i \in 1..Len(Store) : Store'[i] = Store[i]
                  /\ Store'[Len(Store')].text = resp'[t].summary
                  /\ Len(created') = Len(created) + 1
             ELSE /\ StoreUnchanged
                  /\ created' = created
                  /\ pc'[t] = "done" => resp'[t].status \in {400, 404, 500}]_vars

\* a summary request has answered 200; its source note is still at the head
\* of the store and the summary note is last
C15_Witness ==
    \E t \in Threads :
        /\ Done(t, "summarize") /\ resp[t].status = 200
        /\ Len(Store) >= 2
        /\ Store[1].id = req[t].notesId
        /\ Store[Len(Store)].text = resp[t].summary
        /\ resp[t].summary = "a summary"

\* C16: once the lookup has found the source note, the request never looks
\* for it again: whether or not the note is still stored, the provider is
\* called, the summary note is built and appended, and the answer is 200
\* (or 500 when the provider raises), never 404.
C16_NoRecheck ==
    [][\A t \in Threads :
          /\ (Leaves(t, "summarize_dispatch") /\ req[t].modelName \in ValidModels)
             => /\ pc'[t] \in {"summarize_build", "summarize_except"}
                /\ Len(called'[t]) = 1
          /\ Leaves(t, "summarize_build") => pc'[t] = "summarize_append"
          /\ Leaves(t, "summarize_append")
             => /\ pc'[t] = "done" /\ resp'[t].status = 200
                /\ NOTES' = NOTES
                /\ Store' = Append(Store, loc[t].newNote[1])
                /\ resp'[t].summary = loc[t].newNote[1].text]_vars

\* a summary request has answered 200 and its note is the last of the store,
\* while a DELETE that ran after the lookup has removed the source note
C16_Witness ==
    \E t, u \in Threads :
        /\ Done(t, "summarize") /\ resp[t].status = 200
        /\ Done(u, "delete") /\ req[u].note_id = req[t].notesId
        /\ resp[u].status = 204
        /\ req[u].n > req[t].n
        /\ ~HasId(Store, req[t].notesId)
        /\ Store # << >>
        /\ Store[Len(Store)].text = resp[t].summary
====
